---------------------------- MODULE Spec2Model ----------------------------
(***************************************************************************)
(* A model of rmvm: the stack machine of src/vm/machine.rs and the         *)
(* assembler of src/vm/asm.rs, over the vocabulary of src/vm/archi.rs.     *)
(*                                                                         *)
(* Two specifications share the variables:                                 *)
(*   SpecVM   Machine::new() followed by calls of Machine::run on one      *)
(*            instruction sequence, one execute_instruction per step;      *)
(*   SpecAsm  one call of code_from_str on one source text, one iteration  *)
(*            of its scan loop per step, then its resolution pass.         *)
(* Under SpecVM the assembler's variables keep their initial values, and   *)
(* under SpecAsm the machine's do.                                         *)
(***************************************************************************)
EXTENDS Integers, Sequences, FiniteSets, TLC

VARIABLES
    \* ---- Machine (machine.rs:3-10) and the run in progress
    code,        \* the instruction sequence handed to run (read-only)
    pc,          \* Machine.pc : ProgramAddress
    sp,          \* Machine.sp : usize
    fp,          \* Machine.fp : usize
    acc,         \* Machine.acc : Value
    stack,       \* Machine.stack : [Value; STACK_SIZE], indexed from 0
    call_stack,  \* Machine.call_stack : [ProgramAddress; CALLSTACK_SIZE]
    status,      \* "new" | "running" | "halted" | "error" | "panic"
    err,         \* the MachineError returned by run, or NoError
    panic_msg,   \* the message of the panic that ended the run, or ""
    calls,       \* history: the Calls not yet returned from, oldest first,
                 \* each with its address and the fp it found
    runs,        \* calls of run started on this machine
    steps,       \* instructions executed in the current run
    \* ---- code_from_str (asm.rs:110-234)
    src_lines,      \* the lines the source text is made of
    source,         \* src.as_bytes(), one character per element
    dst,            \* the caller's instruction buffer
    char_index,     \* Tokenizer.char_index
    last_token,     \* Tokenizer.last_token
    line_num,       \* Tokenizer.line_num
    inst_count,     \* inst_count : ProgramAddress
    fixes_by_label, \* HashMap<&str, Fix>
    pending,        \* labels the resolution pass has not visited yet
    astatus,        \* "scan" | "resolve" | "ok" | "error" | "panic"
    aerr,           \* the AssemblyError returned, or NoAsmError
    apanic          \* the message of the panic that ended assembly, or ""

mvars == <<code, pc, sp, fp, acc, stack, call_stack, status, err, panic_msg,
           calls, runs, steps>>

avars == <<src_lines, source, dst, char_index, last_token, line_num, inst_count,
           fixes_by_label, pending, astatus, aerr, apanic>>

vars == <<mvars, avars>>

-----------------------------------------------------------------------------
(* Bounds of the model.                                                    *)

\* archi.rs:5 sets STACK_SIZE to 16000 and archi.rs:6 sets CALLSTACK_SIZE to
\* 100.  The model runs the same code with both capacities scaled down, so
\* that full and nearly-full stacks are reached within MaxSteps steps.
STACK_SIZE == 3
CALLSTACK_SIZE == 3

\* Longest instruction sequence drawn from the whole instruction set.
MaxCodeLen == 2
\* Instructions executed per run.
MaxSteps == 10
\* Calls of run on one machine.
MaxRuns == 2
\* Lines of a source text drawn from CoreLines, and from all of Lines.
MaxLines == 4
MaxShortLines == 2
\* Largest destination buffer handed to code_from_str.
MaxCap == 3

-----------------------------------------------------------------------------
(* archi.rs: the instruction set.                                          *)

NoOperandOps ==
    {"Halt", "Noop", "Push", "Pop", "Dup", "Swap", "LoadTop", "Over",
     "Inc", "Dec", "Add", "Sub", "Mul", "Div", "Eq", "Neq", "Lt", "Lte",
     "Gt", "Gte", "Inv", "Ret"}

AddressOps == {"Jmp", "JumpIfZero", "JumpIfNotZero", "Call"}

\* An Instruction value; a variant without payload carries arg 0.
Ins(op, arg) == [op |-> op, arg |-> arg]
I0(op) == Ins(op, 0)

Halt == I0("Halt")

\* Operand values of the enumerated programs.
Immediates == {0, 3, 5}
Addresses == 0 .. MaxCodeLen

Instruction ==
    {I0(op) : op \in NoOperandOps}
    \cup {Ins("LoadImmediate", n) : n \in Immediates}
    \cup {Ins(op, a) : op \in AddressOps, a \in Addresses}

\* code[pc as usize] of a slice held as a TLA+ sequence.
At(seq, i) == seq[i + 1]

-----------------------------------------------------------------------------
(* machine.rs: Machine.                                                    *)

NoError == [kind |-> "none", pc |-> 0]

\* MachineError { kind, pc }
MachineError(kind, at) == [kind |-> kind, pc |-> at]

MachineErrorKind ==
    {"CallStackOverflow", "CallStackUnderflow", "StackOverflow", "StackUnderflow"}

\* Machine::new()
NewMachine ==
    [pc |-> 0, sp |-> 0, fp |-> 0, acc |-> 0,
     stack |-> [i \in 0 .. STACK_SIZE - 1 |-> 0],
     call_stack |-> [i \in 0 .. CALLSTACK_SIZE - 1 |-> 0]]

\* The three ways a method ends: Ok(val), Err(MachineError), or a Rust panic
\* (which unwinds out of run and leaves no result).
Ok(m, val) == [outcome |-> "Ok", m |-> m, val |-> val, err |-> NoError, panic |-> ""]
Err(m, kind) ==
    [outcome |-> "Err", m |-> m, val |-> 0, err |-> MachineError(kind, m.pc), panic |-> ""]
Panic(m, why) == [outcome |-> "Panic", m |-> m, val |-> 0, err |-> NoError, panic |-> why]

\* self.stack[i] as a read: Rust checks the index and panics out of range.
StackInRange(i) == i >= 0 /\ i < STACK_SIZE
CallStackInRange(i) == i >= 0 /\ i < CALLSTACK_SIZE

\* push as it would be with the pointer moved before the bound is tested.
push_MovesFirst(m, value) ==
    LET moved == [m EXCEPT !.sp = m.sp + 1]
    IN  IF moved.sp >= STACK_SIZE
        THEN Err(moved, "StackOverflow")
        ELSE Ok([moved EXCEPT !.stack[m.sp] = value], 0)

\* Machine::push
push(m, value) ==
    IF m.sp >= STACK_SIZE - 1
    THEN Err(m, "StackOverflow")
    ELSE IF ~StackInRange(m.sp)
    THEN Panic(m, "index out of bounds")
    ELSE Ok([m EXCEPT !.stack[m.sp] = value, !.sp = m.sp + 1], 0)

\* pop as it would be without the test for an empty stack.
pop_Unchecked(m) ==
    IF ~StackInRange(m.sp - 1)
    THEN Panic([m EXCEPT !.sp = m.sp - 1], "index out of bounds")
    ELSE Ok([m EXCEPT !.sp = m.sp - 1], m.stack[m.sp - 1])

\* Machine::pop
pop(m) ==
    IF m.sp = 0
    THEN Err(m, "StackUnderflow")
    ELSE IF ~StackInRange(m.sp - 1)
    THEN Panic([m EXCEPT !.sp = m.sp - 1], "index out of bounds")
    ELSE Ok([m EXCEPT !.sp = m.sp - 1], m.stack[m.sp - 1])

\* Machine::push_frame
push_frame(m, addr) ==
    IF m.fp >= CALLSTACK_SIZE - 1
    THEN Err(m, "CallStackOverflow")
    ELSE IF ~CallStackInRange(m.fp)
    THEN Panic(m, "index out of bounds")
    ELSE Ok([m EXCEPT !.call_stack[m.fp] = addr, !.fp = m.fp + 1], 0)

\* Machine::pop_frame
pop_frame(m) ==
    IF m.fp = 0
    THEN Err(m, "CallStackUnderflow")
    ELSE IF ~CallStackInRange(m.fp - 1)
    THEN Panic([m EXCEPT !.fp = m.fp - 1], "index out of bounds")
    ELSE Ok([m EXCEPT !.fp = m.fp - 1], m.call_stack[m.fp - 1])


\* Rust's i32 `/`: the quotient truncated toward zero (TLA+'s \div floors).
TruncDiv(a, b) ==
    LET abs(x) == IF x < 0 THEN -x ELSE x
        q == abs(a) \div abs(b)
    IN  IF (a < 0) = (b < 0) THEN q ELSE -q

Bool(b) == IF b THEN 1 ELSE 0

\* The accumulator after a pop-and-combine instruction: acc is the left
\* operand, the popped value the right one.  Value is i32; the runs of the
\* model stay far inside its range (ValueInRange), so no sum or product
\* overflows here.
Combine(op, a, v) ==
    CASE op = "Add" -> a + v
      [] op = "Sub" -> a - v
      [] op = "Mul" -> a * v
      [] op = "Div" -> TruncDiv(a, v)
      [] op = "Eq"  -> Bool(a = v)
      [] op = "Neq" -> Bool(a # v)
      [] op = "Lt"  -> Bool(a < v)
      [] op = "Lte" -> Bool(a <= v)
      [] op = "Gt"  -> Bool(a > v)
      [] op = "Gte" -> Bool(a >= v)

PopOps == {"Add", "Sub", "Mul", "Div", "Eq", "Neq", "Lt", "Lte", "Gt", "Gte"}

\* The tail of execute_instruction as it would be without the increment.
Advance_Stay(m) == Ok(m, 0)

\* The tail of execute_instruction: self.pc += 1; Ok(()).  pc is a u16; the
\* addresses of the modelled programs stay far below 65535.
Advance(m) == Ok([m EXCEPT !.pc = m.pc + 1], 0)

\* Dup: self.push(self.stack[self.sp])?
ExecDup(m) ==
    IF ~StackInRange(m.sp)
    THEN Panic(m, "index out of bounds")
    ELSE LET r == push(m, m.stack[m.sp])
         IN  IF r.outcome # "Ok" THEN r ELSE Advance(r.m)

\* Swap: tmp = stack[sp]; stack[sp] = stack[sp - 1]; stack[sp - 1] = tmp.
\* sp - 1 on a usize 0 panics (debug: subtract with overflow; release: the
\* wrapped index is out of bounds), before anything is written.
ExecSwap(m) ==
    IF ~StackInRange(m.sp)
    THEN Panic(m, "index out of bounds")
    ELSE IF m.sp = 0
    THEN Panic(m, "attempt to subtract with overflow")
    ELSE Advance([m EXCEPT !.stack[m.sp] = m.stack[m.sp - 1],
                           !.stack[m.sp - 1] = m.stack[m.sp]])

\* LoadTop: self.acc = self.stack[self.sp]
ExecLoadTop(m) ==
    IF ~StackInRange(m.sp)
    THEN Panic(m, "index out of bounds")
    ELSE Advance([m EXCEPT !.acc = m.stack[m.sp]])

\* Over: self.acc = self.stack[self.sp - 1]
ExecOver(m) ==
    IF m.sp = 0
    THEN Panic(m, "attempt to subtract with overflow")
    ELSE IF ~StackInRange(m.sp - 1)
    THEN Panic(m, "index out of bounds")
    ELSE Advance([m EXCEPT !.acc = m.stack[m.sp - 1]])

\* The pop-and-combine instructions as they would be if they read the top
\* of the stack and left it there.
ExecPopOp_NoPop(m, op) ==
    IF m.sp = 0 THEN Err(m, "StackUnderflow")
    ELSE IF op = "Div" /\ m.stack[m.sp - 1] = 0
    THEN Panic(m, "attempt to divide by zero")
    ELSE Advance([m EXCEPT !.acc = Combine(op, m.acc, m.stack[m.sp - 1])])

\* The pop-and-combine instructions as they would be if Div divided the
\* popped value by the accumulator.
ExecPopOp_DivisorIsAcc(m, op) ==
    LET r == pop(m)
    IN  IF r.outcome # "Ok" THEN r
        ELSE IF op = "Div" /\ m.acc = 0
        THEN Panic(r.m, "attempt to divide by zero")
        ELSE Advance([r.m EXCEPT !.acc = IF op = "Div" THEN TruncDiv(r.val, m.acc)
                                         ELSE Combine(op, m.acc, r.val)])

\* Add .. Gte: self.acc <op>= self.pop()?  The pop comes first; a zero
\* divisor makes the i32 division panic after the pop.
ExecPopOp(m, op) ==
    LET r == pop(m)
    IN  IF r.outcome # "Ok" THEN r
        ELSE IF op = "Div" /\ r.val = 0
        THEN Panic(r.m, "attempt to divide by zero")
        ELSE Advance([r.m EXCEPT !.acc = Combine(op, m.acc, r.val)])

\* Call as it would be if it set pc before it pushed the frame.
ExecCall_JumpsFirst(m, addr) ==
    LET r == push_frame([m EXCEPT !.pc = addr], m.pc)
    IN  IF r.outcome # "Ok" THEN r ELSE Ok(r.m, 0)

\* Call(addr): self.push_frame(self.pc)?; self.pc = addr; return Ok(())
ExecCall(m, addr) ==
    LET r == push_frame(m, m.pc)
    IN  IF r.outcome # "Ok" THEN r ELSE Ok([r.m EXCEPT !.pc = addr], 0)

\* Ret as it would be if it returned like the jumps do, before pc += 1.
ExecRet_NoAdvance(m) ==
    LET r == pop_frame(m)
    IN  IF r.outcome # "Ok" THEN r ELSE Ok([r.m EXCEPT !.pc = r.val], 0)

\* Ret: self.pc = self.pop_frame()?; then the common self.pc += 1
ExecRet(m) ==
    LET r == pop_frame(m)
    IN  IF r.outcome # "Ok" THEN r ELSE Advance([r.m EXCEPT !.pc = r.val])

\* Machine::execute_instruction
execute_instruction(m, ins) ==
    CASE ins.op \in {"Halt", "Noop"} -> Advance(m)
      [] ins.op = "LoadImmediate" -> Advance([m EXCEPT !.acc = ins.arg])
      [] ins.op = "Push" ->
            LET r == push(m, m.acc)
            IN  IF r.outcome # "Ok" THEN r ELSE Advance(r.m)
      [] ins.op = "Pop" ->
            LET r == pop(m)
            IN  IF r.outcome # "Ok" THEN r ELSE Advance([r.m EXCEPT !.acc = r.val])
      [] ins.op = "Dup" -> ExecDup(m)
      [] ins.op = "Swap" -> ExecSwap(m)
      [] ins.op = "LoadTop" -> ExecLoadTop(m)
      [] ins.op = "Over" -> ExecOver(m)
      [] ins.op = "Inc" -> Advance([m EXCEPT !.acc = m.acc + 1])
      [] ins.op = "Dec" -> Advance([m EXCEPT !.acc = m.acc - 1])
      [] ins.op \in PopOps -> ExecPopOp(m, ins.op)
      [] ins.op = "Inv" -> Advance([m EXCEPT !.acc = IF m.acc = 1 THEN 0 ELSE 1])
      [] ins.op = "Jmp" -> Ok([m EXCEPT !.pc = ins.arg], 0)
      [] ins.op = "JumpIfZero" ->
            IF m.acc = 0 THEN Ok([m EXCEPT !.pc = ins.arg], 0) ELSE Advance(m)
      [] ins.op = "JumpIfNotZero" ->
            IF m.acc # 0 THEN Ok([m EXCEPT !.pc = ins.arg], 0) ELSE Advance(m)
      [] ins.op = "Call" -> ExecCall(m, ins.arg)
      [] ins.op = "Ret" -> ExecRet(m)

-----------------------------------------------------------------------------
(* The inputs of run: every instruction sequence of at most MaxCodeLen      *)
(* instructions, and the programs the specification names.                  *)

RECURSIVE SeqsUpTo(_, _)
SeqsUpTo(S, n) ==
    IF n = 0 THEN {<<>>}
    ELSE LET shorter == SeqsUpTo(S, n - 1)
         IN  shorter \cup {Append(s, x) : s \in {t \in shorter : Len(t) = n - 1}, x \in S}

ShortPrograms == SeqsUpTo(Instruction, MaxCodeLen)

\* load 5 / push / load 3 / push / add / halt
ProgAdd ==
    <<Ins("LoadImmediate", 5), I0("Push"), Ins("LoadImmediate", 3), I0("Push"),
      I0("Add"), Halt>>

\* load 5 / push / load 0 / div / halt
ProgDivZero ==
    <<Ins("LoadImmediate", 5), I0("Push"), Ins("LoadImmediate", 0), I0("Div"), Halt>>

\* call 3 / load 3 / halt / inc / ret : one call, one return
ProgCallRet ==
    <<Ins("Call", 3), Ins("LoadImmediate", 3), Halt, I0("Inc"), I0("Ret")>>

\* jmp 2 / load 5 / load 3 / halt : what `jmp @skip / load 99 / skip: ...`
\* assembles to, with the spec's immediates replaced by modelled ones
ProgSkip ==
    <<Ins("Jmp", 2), Ins("LoadImmediate", 5), Ins("LoadImmediate", 3), Halt>>

SamplePrograms == {ProgAdd, ProgDivZero, ProgCallRet, ProgSkip}

Programs == ShortPrograms \cup SamplePrograms

-----------------------------------------------------------------------------
(* SpecVM: Machine::new(), then run.                                        *)

Machine ==
    [pc |-> pc, sp |-> sp, fp |-> fp, acc |-> acc,
     stack |-> stack, call_stack |-> call_stack]

SetMachine(m) ==
    /\ pc' = m.pc
    /\ sp' = m.sp
    /\ fp' = m.fp
    /\ acc' = m.acc
    /\ stack' = m.stack
    /\ call_stack' = m.call_stack

\* The assembler is not involved in running.
AsmIdle ==
    /\ src_lines = <<>>
    /\ source = <<>>
    /\ dst = <<>>
    /\ char_index = 0
    /\ last_token = 0
    /\ line_num = 0
    /\ inst_count = 0
    /\ fixes_by_label = <<>>
    /\ pending = {}
    /\ astatus = "idle"
    /\ aerr = [kind |-> "none", text |-> <<>>, line |-> 0]
    /\ apanic = ""

InitVM ==
    /\ AsmIdle
    /\ code \in Programs
    /\ pc = NewMachine.pc
    /\ sp = NewMachine.sp
    /\ fp = NewMachine.fp
    /\ acc = NewMachine.acc
    /\ stack = NewMachine.stack
    /\ call_stack = NewMachine.call_stack
    /\ status = "new"
    /\ err = NoError
    /\ panic_msg = ""
    /\ calls = <<>>
    /\ runs = 0
    /\ steps = 0

\* The loop condition of run.
Fetchable == pc < Len(code) /\ At(code, pc) # Halt

\* run is entered: self.pc = 0.  A machine whose run has returned (Ok or
\* Err) can be run again; nothing but pc is reset.
RunEnter ==
    /\ status \in {"new", "halted", "error"}
    /\ runs < MaxRuns
    /\ pc' = 0
    /\ status' = "running"
    /\ err' = NoError
    /\ runs' = runs + 1
    /\ steps' = 0
    /\ UNCHANGED <<code, sp, fp, acc, stack, call_stack, panic_msg, calls>>
    /\ UNCHANGED avars

\* The history of open calls after an instruction: a Call that succeeds
\* opens one, a Ret that succeeds closes the newest.
CallsAfter(ins, outcome) ==
    IF outcome # "Ok" THEN calls
    ELSE IF ins.op = "Call" THEN Append(calls, [site |-> pc, fp |-> fp])
    ELSE IF ins.op = "Ret" THEN SubSeq(calls, 1, Len(calls) - 1)
    ELSE calls

\* One iteration of the loop of run: self.execute_instruction(code[pc])?
RunStep ==
    /\ status = "running"
    /\ Fetchable
    /\ steps < MaxSteps
    /\ LET r == execute_instruction(Machine, At(code, pc))
       IN  /\ SetMachine(r.m)
           /\ status' = CASE r.outcome = "Ok" -> "running"
                          [] r.outcome = "Err" -> "error"
                          [] r.outcome = "Panic" -> "panic"
           /\ err' = r.err
           /\ panic_msg' = r.panic
           /\ calls' = CallsAfter(At(code, pc), r.outcome)
    /\ steps' = steps + 1
    /\ UNCHANGED <<code, runs>>
    /\ UNCHANGED avars

\* The loop of run ends (pc out of range, or Halt at pc): Ok(())
RunExit ==
    /\ status = "running"
    /\ ~Fetchable
    /\ status' = "halted"
    /\ UNCHANGED <<code, pc, sp, fp, acc, stack, call_stack, err, panic_msg,
                   calls, runs, steps>>
    /\ UNCHANGED avars

NextVM == RunEnter \/ RunStep \/ RunExit

SpecVM == InitVM /\ [][NextVM]_vars

\* run is a sequential loop: while an iteration is possible it is taken,
\* and when none is, run returns.
FairSpecVM == SpecVM /\ WF_vars(RunStep \/ RunExit)

\* The loop of run from machine m, at most `fuel` iterations of it: how it
\* ends ("halted" for Ok(()), "error", "panic", or "running" when the
\* iterations are used up), the machine then, and the error returned.
RECURSIVE RunFrom(_, _, _)
RunFrom(m, prog, fuel) ==
    IF ~(m.pc < Len(prog) /\ At(prog, m.pc) # Halt)
    THEN [status |-> "halted", m |-> m, err |-> NoError]
    ELSE IF fuel = 0
    THEN [status |-> "running", m |-> m, err |-> NoError]
    ELSE LET r == execute_instruction(m, At(prog, m.pc))
         IN  CASE r.outcome = "Ok" -> RunFrom(r.m, prog, fuel - 1)
               [] r.outcome = "Err" -> [status |-> "error", m |-> r.m, err |-> r.err]
               [] r.outcome = "Panic" -> [status |-> "panic", m |-> r.m, err |-> r.err]

\* Machine::run(code) on machine m as one function: self.pc = 0, then the loop.
run(m, prog) == RunFrom([m EXCEPT !.pc = 0], prog, MaxSteps)

\* Stepping through the first run and evaluating run on Machine::new() agree.
FirstRunAgreesWithFunction ==
    runs = 1 /\ status \in {"halted", "error", "panic"} =>
        LET fresh == run(NewMachine, code)
        IN  fresh.status = status /\ fresh.m = Machine /\ fresh.err = err

\* The accumulator and the stack slots stay inside i32 in every modelled run.
ValueInRange ==
    /\ acc \in -1000000 .. 1000000
    /\ \A i \in 0 .. STACK_SIZE - 1 : stack[i] \in -1000000 .. 1000000


-----------------------------------------------------------------------------
(* asm.rs: the assembler.  A text is the sequence of its characters.       *)

NoAsmError == [kind |-> "none", text |-> <<>>, line |-> 0]

\* AssemblyError { kind, line }; text is the String of UnknownInstruction
\* and InvalidNumber.
AssemblyError(kind, text, line) == [kind |-> kind, text |-> text, line |-> line]

\* The byte-string patterns of the match in code_from_str, in its order, with
\* the instruction each arm builds.
Mnemonics ==
    {
     <<<<"h", "a", "l", "t">>, "Halt">>,
     <<<<"n", "o", "o", "p">>, "Noop">>,
     <<<<"l", "o", "a", "d">>, "LoadImmediate">>,
     <<<<"p", "u", "s", "h">>, "Push">>,
     <<<<"p", "o", "p">>, "Pop">>,
     <<<<"d", "u", "p">>, "Dup">>,
     <<<<"s", "w", "a", "p">>, "Swap">>,
     <<<<"l", "d", "t">>, "LoadTop">>,
     <<<<"o", "v", "e", "r">>, "Over">>,
     <<<<"i", "n", "c">>, "Inc">>,
     <<<<"d", "e", "c">>, "Dec">>,
     <<<<"a", "d", "d">>, "Add">>,
     <<<<"s", "u", "b">>, "Sub">>,
     <<<<"m", "u", "l">>, "Mul">>,
     <<<<"d", "i", "v">>, "Div">>,
     <<<<"e", "q">>, "Eq">>,
     <<<<"n", "e", "q">>, "Neq">>,
     <<<<"l", "t">>, "Lt">>,
     <<<<"l", "t", "e">>, "Lte">>,
     <<<<"g", "t">>, "Gt">>,
     <<<<"g", "t", "e">>, "Gte">>,
     <<<<"i", "n", "v">>, "Inv">>,
     <<<<"j", "m", "p">>, "Jmp">>,
     <<<<"j", "z">>, "JumpIfZero">>,
     <<<<"j", "n", "z">>, "JumpIfNotZero">>,
     <<<<"c", "a", "l", "l">>, "Call">>,
     <<<<"r", "e", "t">>, "Ret">>
    }

MnemonicOf(cmd) ==
    IF \E p \in Mnemonics : p[1] = cmd
    THEN (CHOOSE p \in Mnemonics : p[1] = cmd)[2]
    ELSE "none"

Digits == <<"0", "1", "2", "3", "4", "5", "6", "7", "8", "9">>
IsDigit(c) == \E d \in 1 .. 10 : Digits[d] = c
DigitVal(c) == (CHOOSE d \in 1 .. 10 : Digits[d] = c) - 1

\* The value of a digit string, held at 65536 once it passes every integer
\* type parsed here (u16 and i16).
RECURSIVE DigitsValue(_)
DigitsValue(t) ==
    IF t = <<>> THEN 0
    ELSE LET v == 10 * DigitsValue(SubSeq(t, 1, Len(t) - 1)) + DigitVal(t[Len(t)])
         IN  IF v > 65536 THEN 65536 ELSE v

\* str::parse for an integer type with values lo..hi: an optional sign ("+",
\* and "-" when the type is signed), then one or more decimal digits, the
\* value inside the type.  Every other text is an error.
ParseInt(t, signed, lo, hi) ==
    LET sign == t # <<>> /\ (t[1] = "+" \/ (signed /\ t[1] = "-"))
        body == IF sign THEN Tail(t) ELSE t
        wellFormed == /\ body # <<>>
                      /\ \A i \in 1 .. Len(body) : IsDigit(body[i])
        val == IF sign /\ t[1] = "-" THEN -DigitsValue(body) ELSE DigitsValue(body)
    IN  IF wellFormed /\ val >= lo /\ val <= hi
        THEN [ok |-> TRUE, val |-> val]
        ELSE [ok |-> FALSE, val |-> 0]

\* parse_immediate: Immediate is i16
parse_immediate(operand, linum) ==
    LET r == ParseInt(operand, TRUE, -32768, 32767)
    IN  IF r.ok
        THEN [ok |-> TRUE, val |-> r.val, err |-> NoAsmError]
        ELSE [ok |-> FALSE, val |-> 0,
              err |-> AssemblyError("InvalidNumber", operand, linum)]

\* Option<ProgramAddress>
None == [some |-> FALSE, val |-> 0]
Some(a) == [some |-> TRUE, val |-> a]

\* struct Fix, Fix::new and Fix::new_with_fix
Fix(address, to_fix) == [address |-> address, to_fix |-> to_fix]

\* Tokenizer::consume_comment: char_index moves to the next "\n" or the end.
RECURSIVE consume_comment(_, _)
consume_comment(t, src) ==
    IF t.char_index < Len(src) /\ At(src, t.char_index) # "\n"
    THEN consume_comment([t EXCEPT !.char_index = t.char_index + 1], src)
    ELSE t

\* The loop of Tokenizer::next_token.
RECURSIVE TokenEnd(_, _, _)
TokenEnd(ci, last, src) ==
    IF /\ ci < Len(src) - 1
       /\ (ci < last \/ (At(src, ci) # " " /\ At(src, ci) # "\n"))
    THEN TokenEnd(ci + 1, last, src)
    ELSE ci

\* Tokenizer::next_token: the range last_token..char_index and the tokenizer
\* after it.  (It is only called on a non-empty source.)
next_token(t, src) ==
    LET e == TokenEnd(t.char_index, t.last_token, src)
        last == e + 1
    IN  [tok |-> [start |-> t.last_token, end |-> e],
         t |-> [t EXCEPT !.last_token = last,
                         !.char_index = IF last >= Len(src) THEN last ELSE e]]

\* &source[range]: Rust panics unless start <= end <= len.
SliceOk(src, r) == r.start <= r.end /\ r.end <= Len(src)
Slice(src, r) == SubSeq(src, r.start + 1, r.end)

\* Tokenizer::parse_address: the address operand, and the symbol table after
\* the call.  ProgramAddress is u16.
parse_address(t, operand, count, fixes) ==
    IF operand # <<>> /\ operand[1] = "@"
    THEN LET label == Tail(operand)
         IN  IF label \notin DOMAIN fixes
             THEN [ok |-> TRUE, val |-> 0, err |-> NoAsmError,
                   fixes |-> fixes @@ (label :> Fix(None, <<count>>))]
             ELSE LET fix == fixes[label]
                  IN  [ok |-> TRUE,
                       val |-> IF fix.address.some THEN fix.address.val ELSE 0,
                       err |-> NoAsmError,
                       fixes |-> [fixes EXCEPT ![label].to_fix = Append(@, count)]]
    ELSE LET r == ParseInt(operand, FALSE, 0, 65535)
         IN  IF r.ok
             THEN [ok |-> TRUE, val |-> r.val, err |-> NoAsmError, fixes |-> fixes]
             ELSE [ok |-> FALSE, val |-> 0, fixes |-> fixes,
                   err |-> AssemblyError("InvalidNumber", operand, t.line_num)]


AddressIns(ins) == ins.op \in AddressOps

\* How one iteration of the scan loop, or the resolution of one label, ends:
\* "emit" (an instruction was stored), "continue", "error" (return Err) or
\* "panic".
ArmResult(kind, t, count, fixes, buf, e, why) ==
    [kind |-> kind, t |-> t, inst_count |-> count, fixes |-> fixes, dst |-> buf,
     err |-> e, panic |-> why]

\* The end of the token arm as it would be if the instruction were counted
\* but not stored.
Emit_NoStore(ins, t, count, fixes, buf) ==
    IF count >= Len(buf)
    THEN ArmResult("panic", t, count, fixes, buf, NoAsmError, "index out of bounds")
    ELSE ArmResult("emit", [t EXCEPT !.line_num = t.line_num + 1], count + 1, fixes,
                   buf, NoAsmError, "")

\* dst[inst_count as usize] = <instruction>; inst_count += 1; line_num += 1.
\* The index is checked when the store happens, after the right-hand side
\* has been evaluated: a full buffer makes it panic.
Emit(ins, t, count, fixes, buf) ==
    IF count >= Len(buf)
    THEN ArmResult("panic", t, count, fixes, buf, NoAsmError, "index out of bounds")
    ELSE ArmResult("emit", [t EXCEPT !.line_num = t.line_num + 1], count + 1, fixes,
                   [buf EXCEPT ![count + 1] = ins], NoAsmError, "")

\* The label arm: the name before ":" is bound to the current inst_count.
DefineLabel(name, count, fixes) ==
    IF name \in DOMAIN fixes
    THEN [fixes EXCEPT ![name].address = Some(count)]
    ELSE fixes @@ (name :> Fix(Some(count), <<>>))

\* The b' ' | b'\n' arm of the scan loop of code_from_str.
ScanArm(t, count, fixes, buf, src) ==
    LET n1 == next_token(t, src)
        cmd == Slice(src, n1.tok)
        op == MnemonicOf(cmd)
        n2 == next_token(n1.t, src)
        operand == Slice(src, n2.tok)
    IN  IF ~SliceOk(src, n1.tok)
        THEN ArmResult("panic", n1.t, count, fixes, buf, NoAsmError, "slice index")
        ELSE IF cmd = <<>>
        THEN ArmResult("continue", n1.t, count, fixes, buf, NoAsmError, "")
        ELSE IF op = "LoadImmediate" \/ op \in AddressOps
        THEN IF ~SliceOk(src, n2.tok)
             THEN ArmResult("panic", n2.t, count, fixes, buf, NoAsmError, "slice index")
             ELSE IF op = "LoadImmediate"
             THEN LET r == parse_immediate(operand, n2.t.line_num)
                  IN  IF r.ok
                      THEN Emit(Ins(op, r.val), n2.t, count, fixes, buf)
                      ELSE ArmResult("error", n2.t, count, fixes, buf, r.err, "")
             ELSE LET r == parse_address(n2.t, operand, count, fixes)
                  IN  IF r.ok
                      THEN Emit(Ins(op, r.val), n2.t, count, r.fixes, buf)
                      ELSE ArmResult("error", n2.t, count, r.fixes, buf, r.err, "")
        ELSE IF op # "none"
        THEN Emit(I0(op), n1.t, count, fixes, buf)
        ELSE IF cmd[Len(cmd)] = ":"
        THEN ArmResult("continue", n1.t, count,
                       DefineLabel(SubSeq(cmd, 1, Len(cmd) - 1), count, fixes),
                       buf, NoAsmError, "")
        ELSE ArmResult("error", n1.t, count, fixes, buf,
                       AssemblyError("UnknownInstruction", cmd, n1.t.line_num), "")

\* The inner loop of the resolution pass: every slot of to_fix gets the
\* label's address, its opcode kept.  A slot holding an instruction without
\* an address is todo!(), a panic.
RECURSIVE PatchAll(_, _, _)
PatchAll(buf, to_fix, address) ==
    IF to_fix = <<>> THEN [ok |-> TRUE, dst |-> buf, panic |-> ""]
    ELSE LET addr == Head(to_fix)
         IN  IF addr >= Len(buf)
             THEN [ok |-> FALSE, dst |-> buf, panic |-> "index out of bounds"]
             ELSE IF ~AddressIns(At(buf, addr))
             THEN [ok |-> FALSE, dst |-> buf,
                   panic |-> "not yet implemented: handle error instruction address unsupported"]
             ELSE PatchAll([buf EXCEPT ![addr + 1] = Ins(At(buf, addr).op, address)],
                           Tail(to_fix), address)

\* One iteration of `for (_, fix) in fixes_by_label`.
ResolveFix(fix, buf) ==
    IF ~fix.address.some
    THEN [ok |-> FALSE, dst |-> buf,
          panic |-> "not yet implemented: handle error missing label definition"]
    ELSE PatchAll(buf, fix.to_fix, fix.address.val)

-----------------------------------------------------------------------------
(* The inputs of code_from_str: source texts made of lines.                 *)

\* `halt`
L_halt == <<"h", "a", "l", "t">>
\* `jmp @a`
L_jmp_a == <<"j", "m", "p", " ", "@", "a">>
\* `call @ab`
L_call_ab == <<"c", "a", "l", "l", " ", "@", "a", "b">>
\* `a:`
L_a == <<"a", ":">>
\* `ab:`
L_ab == <<"a", "b", ":">>
\* ``
L_blank == <<>>
\* `; c`
L_comment == <<";", " ", "c">>
\* `load 5`
L_load_5 == <<"l", "o", "a", "d", " ", "5">>
\* `load`
L_load == <<"l", "o", "a", "d">>
\* `load x`
L_load_x == <<"l", "o", "a", "d", " ", "x">>
\* `jz 1`
L_jz_1 == <<"j", "z", " ", "1">>
\* `jnz @b`
L_jnz_b == <<"j", "n", "z", " ", "@", "b">>
\* `nop`
L_nop == <<"n", "o", "p">>

\* Lines combined up to MaxLines deep: instructions, references to two labels
\* of which one name is a prefix of the other, and their definitions.
CoreLines == {L_halt, L_jmp_a, L_call_ab, L_a, L_ab}

\* Lines combined up to MaxShortLines deep: the above, a blank line, a
\* comment, operands present, absent and malformed, an undefined label and
\* an unknown mnemonic.
Lines == CoreLines \cup {L_blank, L_comment, L_load_5, L_load, L_load_x, L_jz_1, L_jnz_b, L_nop}

\* One line for each mnemonic of the match in code_from_str, with the
\* operand `5` for load, `1` for jmp, jz, jnz and call and none otherwise.
MnemonicLine(p) ==
    p[1] \o (IF p[2] = "LoadImmediate" THEN <<" ", "5">>
             ELSE IF p[2] \in AddressOps THEN <<" ", "1">>
             ELSE <<>>)

MnemonicLines == {MnemonicLine(p) : p \in Mnemonics}

\* The sources: sequences of the lines above, and every mnemonic on a line
\* of its own.
LineSeqs ==
    SeqsUpTo(CoreLines, MaxLines) \cup SeqsUpTo(Lines, MaxShortLines)
        \cup {<<l>> : l \in MnemonicLines}

\* The text of the lines, "\n" between them, and after the last one when
\* the text ends with a newline.
RECURSIVE JoinLines(_)
JoinLines(ls) ==
    IF ls = <<>> THEN <<>>
    ELSE IF Len(ls) = 1 THEN ls[1]
    ELSE ls[1] \o <<"\n">> \o JoinLines(Tail(ls))

Text(ls, nl) ==
    IF ls = <<>> THEN <<>>
    ELSE JoinLines(ls) \o (IF nl THEN <<"\n">> ELSE <<>>)

-----------------------------------------------------------------------------
(* SpecAsm: one call of code_from_str(src, dst).                            *)

Tokenizer == [char_index |-> char_index, last_token |-> last_token, line_num |-> line_num]

SetTokenizer(t) ==
    /\ char_index' = t.char_index
    /\ last_token' = t.last_token
    /\ line_num' = t.line_num

\* The machine is not involved in assembling.
MachineIdle ==
    /\ code = <<>>
    /\ pc = NewMachine.pc
    /\ sp = NewMachine.sp
    /\ fp = NewMachine.fp
    /\ acc = NewMachine.acc
    /\ stack = NewMachine.stack
    /\ call_stack = NewMachine.call_stack
    /\ status = "idle"
    /\ err = NoError
    /\ panic_msg = ""
    /\ calls = <<>>
    /\ runs = 0
    /\ steps = 0

\* asm.rs:111-118, with dst as main.rs:9 makes it: every slot Halt.
AsmEntry(ls, nl, cap) ==
    /\ src_lines = ls
    /\ source = Text(ls, nl)
    /\ dst = [i \in 1 .. cap |-> Halt]
    /\ char_index = 0
    /\ last_token = 0
    /\ line_num = 0
    /\ inst_count = 0
    /\ fixes_by_label = <<>>
    /\ pending = {}
    /\ aerr = NoAsmError
    /\ apanic = ""

InitAsm ==
    /\ MachineIdle
    /\ \E ls \in LineSeqs, nl \in BOOLEAN, cap \in 1 .. MaxCap : AsmEntry(ls, nl, cap)
    /\ astatus = "scan"

Scanning == astatus = "scan" /\ char_index < Len(source)

\* b';' => tokenizer.consume_comment(source)
ScanComment ==
    /\ Scanning
    /\ At(source, char_index) = ";"
    /\ SetTokenizer(consume_comment(Tokenizer, source))
    /\ UNCHANGED <<src_lines, source, dst, inst_count, fixes_by_label, pending,
                   astatus, aerr, apanic>>
    /\ UNCHANGED mvars

\* b' ' | b'\n' => the token arm
ScanToken ==
    /\ Scanning
    /\ At(source, char_index) \in {" ", "\n"}
    /\ LET r == ScanArm(Tokenizer, inst_count, fixes_by_label, dst, source)
       IN  /\ SetTokenizer(r.t)
           /\ inst_count' = r.inst_count
           /\ fixes_by_label' = r.fixes
           /\ dst' = r.dst
           /\ aerr' = r.err
           /\ apanic' = r.panic
           /\ astatus' = CASE r.kind \in {"emit", "continue"} -> "scan"
                           [] r.kind = "error" -> "error"
                           [] r.kind = "panic" -> "panic"
    /\ UNCHANGED <<src_lines, source, pending>>
    /\ UNCHANGED mvars

\* _ => tokenizer.char_index += 1
ScanSkip ==
    /\ Scanning
    /\ At(source, char_index) \notin {";", " ", "\n"}
    /\ char_index' = char_index + 1
    /\ UNCHANGED <<src_lines, source, dst, last_token, line_num, inst_count,
                   fixes_by_label, pending, astatus, aerr, apanic>>
    /\ UNCHANGED mvars

\* The scan loop ends; the resolution pass starts over the map's entries.
ScanEnd ==
    /\ astatus = "scan"
    /\ char_index >= Len(source)
    /\ astatus' = "resolve"
    /\ pending' = DOMAIN fixes_by_label
    /\ UNCHANGED <<src_lines, source, dst, char_index, last_token, line_num,
                   inst_count, fixes_by_label, aerr, apanic>>
    /\ UNCHANGED mvars

\* One entry of the map is resolved; a HashMap yields them in any order.
ResolveLabel ==
    /\ astatus = "resolve"
    /\ \E label \in pending :
          LET r == ResolveFix(fixes_by_label[label], dst)
          IN  /\ dst' = r.dst
              /\ astatus' = IF r.ok THEN "resolve" ELSE "panic"
              /\ apanic' = r.panic
              /\ pending' = pending \ {label}
    /\ UNCHANGED <<src_lines, source, char_index, last_token, line_num,
                   inst_count, fixes_by_label, aerr>>
    /\ UNCHANGED mvars

\* Ok(inst_count)
AsmReturn ==
    /\ astatus = "resolve"
    /\ pending = {}
    /\ astatus' = "ok"
    /\ UNCHANGED <<src_lines, source, dst, char_index, last_token, line_num,
                   inst_count, fixes_by_label, pending, aerr, apanic>>
    /\ UNCHANGED mvars

NextAsm == ScanComment \/ ScanToken \/ ScanSkip \/ ScanEnd \/ ResolveLabel \/ AsmReturn

SpecAsm == InitAsm /\ [][NextAsm]_vars

\* The resolution pass run to its end over the entries `labels`, taken in
\* some order.  When it does not panic the result is the same in any order.
RECURSIVE ResolveAll(_, _, _)
ResolveAll(fixes, buf, labels) ==
    IF labels = {} THEN [ok |-> TRUE, dst |-> buf, panic |-> ""]
    ELSE LET label == CHOOSE l \in labels : TRUE
             r == ResolveFix(fixes[label], buf)
         IN  IF r.ok THEN ResolveAll(fixes, r.dst, labels \ {label}) ELSE r

\* What a call of code_from_str gives back: Ok(inst_count) with the buffer
\* it filled, Err(AssemblyError), or a panic.
AsmOutcome(kind, count, buf, e, why) ==
    [status |-> kind,
     inst_count |-> IF kind = "ok" THEN count ELSE 0,
     code |-> IF kind = "ok" THEN SubSeq(buf, 1, count) ELSE <<>>,
     err |-> e,
     panic |-> IF kind = "panic" THEN "panic" ELSE ""]

\* The scan loop of code_from_str from one iteration to its end, followed by
\* the resolution pass.
RECURSIVE ScanAll(_, _, _, _, _)
ScanAll(t, count, fixes, buf, src) ==
    IF t.char_index >= Len(src)
    THEN LET r == ResolveAll(fixes, buf, DOMAIN fixes)
         IN  IF r.ok THEN AsmOutcome("ok", count, r.dst, NoAsmError, "")
             ELSE AsmOutcome("panic", count, r.dst, NoAsmError, r.panic)
    ELSE LET c == At(src, t.char_index)
         IN  IF c = ";" THEN ScanAll(consume_comment(t, src), count, fixes, buf, src)
             ELSE IF c \in {" ", "\n"}
             THEN LET r == ScanArm(t, count, fixes, buf, src)
                  IN  IF r.kind \in {"emit", "continue"}
                      THEN ScanAll(r.t, r.inst_count, r.fixes, r.dst, src)
                      ELSE AsmOutcome(r.kind, r.inst_count, r.dst, r.err, r.panic)
             ELSE ScanAll([t EXCEPT !.char_index = t.char_index + 1], count, fixes, buf, src)

\* code_from_str(src, dst) as one function of its arguments.
code_from_str(src, buf) ==
    ScanAll([char_index |-> 0, last_token |-> 0, line_num |-> 0], 0, <<>>, buf, src)

\* The outcome of the call that the actions of SpecAsm have carried out.
Outcome == AsmOutcome(astatus, inst_count, dst, aerr, apanic)

\* Stepping through code_from_str and evaluating it as a function agree.
StepsAgreeWithFunction ==
    astatus \in {"ok", "error", "panic"} =>
        Outcome = code_from_str(source, [i \in 1 .. Len(dst) |-> Halt])


-----------------------------------------------------------------------------
(* Properties of the machine, under SpecVM.                                 *)

\* The instruction that the next iteration of run executes is `op`.
Executing(op) ==
    /\ status = "running"
    /\ Fetchable
    /\ steps < MaxSteps
    /\ At(code, pc).op = op

ExecutingOneOf(ops) == \E op \in ops : Executing(op)

\* The machine's registers and stacks are left as they were.
MachineUnchanged == UNCHANGED <<pc, sp, fp, acc, stack, call_stack>>

\* The instruction about to run would index a data-stack slot outside
\* 0 .. STACK_SIZE - 1: Swap and Over use sp - 1, Dup, Swap and LoadTop use sp.
IndexesOutOfRange ==
    \/ ExecutingOneOf({"Swap", "Over"}) /\ ~StackInRange(sp - 1)
    \/ ExecutingOneOf({"Dup", "Swap", "LoadTop"}) /\ ~StackInRange(sp)

\* C1: no instruction reads or writes a stack slot outside the capacities;
\* an instruction whose access would fall out of range (Swap or Over at
\* sp = 0 among them) ends the run with a MachineError carrying its pc, and
\* never with a crash.
C1_OutOfRangeIsReported ==
    [][IndexesOutOfRange =>
          /\ status' = "error"
          /\ err'.kind \in MachineErrorKind
          /\ err'.pc = pc]_vars

\* C2: sp stays within 0 .. STACK_SIZE and fp within 0 .. CALLSTACK_SIZE in
\* every reachable state, and an instruction that fails in push, pop,
\* push_frame or pop_frame leaves sp and fp as they were: the bound is
\* tested before the pointer moves.
C2_PointersInBounds ==
    /\ [](sp \in 0 .. STACK_SIZE /\ fp \in 0 .. CALLSTACK_SIZE)
    /\ [][status = "running" /\ status' = "error" => sp' = sp /\ fp' = fp]_vars

\* A push was refused on the fullest data stack the code allows, and sp
\* stayed where it was.
C2_Witness ==
    /\ status = "error"
    /\ err.kind = "StackOverflow"
    /\ sp = STACK_SIZE - 1
    /\ runs = 1


\* A program with a single call/return pair that is otherwise loop-free:
\* one Call, to an address below it in the text, one Ret, and no jump.
OneCallOneRet(prog) ==
    LET at(op) == {i \in 0 .. Len(prog) - 1 : At(prog, i).op = op}
    IN  /\ Cardinality(at("Call")) = 1
        /\ Cardinality(at("Ret")) = 1
        /\ \A i \in at("Call") : At(prog, i).arg > i
        /\ at("Jmp") \cup at("JumpIfZero") \cup at("JumpIfNotZero") = {}

\* C4: a Ret that finds the frame of a Call made at address c on top of the
\* call stack makes c + 1 the next address fetched, not c, and puts fp back
\* to what it was before that Call; a run of a program with a single
\* call/return pair and no other loop comes to an end.
C4_ReturnResumesAfterCall ==
    /\ [][Executing("Ret") /\ status' = "running" =>
             /\ calls # <<>>
             /\ At(code, calls[Len(calls)].site).op = "Call"
             /\ pc' = calls[Len(calls)].site + 1
             /\ fp' = calls[Len(calls)].fp]_vars
    /\ (OneCallOneRet(code) /\ status = "running") ~> (status # "running")

\* ProgCallRet has returned from its call: the Call at 0 went to 3, Inc ran,
\* and Ret has just made pc 1 with the call stack empty again.
C4_Witness ==
    /\ code = ProgCallRet
    /\ OneCallOneRet(code)
    /\ runs = 1
    /\ status = "running"
    /\ pc = 1
    /\ fp = 0
    /\ acc = 1

\* C5: Div with a zero on top of the data stack makes the run fail with a
\* DivisionByZero error carrying the pc of the Div; it does not crash.
C5_DivisionByZeroReported ==
    [][Executing("Div") /\ sp > 0 /\ stack[sp - 1] = 0 =>
          /\ status' = "error"
          /\ err' = MachineError("DivisionByZero", pc)]_vars

\* The first run of ProgDivZero, on a fresh machine, is over.
ProgDivZeroRan == code = ProgDivZero /\ runs = 1 /\ status # "running"

\* C15, as stated: load 5 / push / load 0 / div / halt on a fresh machine
\* fails with a DivisionByZero error whose pc is 3, the address of the Div.
C15_DivSample ==
    ProgDivZeroRan => status = "error" /\ err = MachineError("DivisionByZero", 3)

\* C15, amended: the Div of load 5 / push / load 0 / div / halt divides the
\* accumulator 0 by the popped 5, so the run on a fresh machine ends
\* normally with acc = 0, sp = 0 and pc = 4, the address of the Halt.
C15_DivSampleAmended ==
    ProgDivZeroRan =>
        /\ status = "halted"
        /\ err = NoError
        /\ acc = 0
        /\ sp = 0
        /\ pc = 4

\* The first run of the sample has gone through its Div and stopped at Halt.
C15_Witness == ProgDivZeroRan /\ status = "halted" /\ steps = 4

\* The first run of ProgAdd, on a fresh machine, is over.
ProgAddRan == code = ProgAdd /\ runs = 1 /\ status # "running"

\* C8, as stated: load 5 / push / load 3 / push / add / halt on a fresh
\* machine ends normally with acc = 8, sp = 1 and pc = 5.
C8_AddSample ==
    ProgAddRan => status = "halted" /\ acc = 8 /\ sp = 1 /\ pc = 5

\* C8, amended: that run ends normally with acc = 6 (the second push leaves
\* 3 in acc, and add pops that same 3), sp = 1 and pc = 5.
C8_AddSampleAmended ==
    ProgAddRan => status = "halted" /\ acc = 6 /\ sp = 1 /\ pc = 5 /\ steps = 5

C8_Witness == ProgAddRan /\ status = "halted" /\ stack[0] = 5 /\ stack[1] = 3

\* C9: Push and Dup fail with StackOverflow exactly when the data stack holds
\* STACK_SIZE values, and Call fails with CallStackOverflow exactly when the
\* call stack holds CALLSTACK_SIZE return addresses.
C9_OverflowExactlyWhenFull ==
    [][/\ ExecutingOneOf({"Push", "Dup"}) =>
             ((status' = "error" /\ err'.kind = "StackOverflow") <=> sp = STACK_SIZE)
       /\ Executing("Call") =>
             ((status' = "error" /\ err'.kind = "CallStackOverflow")
                 <=> fp = CALLSTACK_SIZE)]_vars

\* The instructions that pop the data stack.
PoppingOps == {"Pop"} \cup PopOps

\* C10: an instruction that pops the data stack, executed with sp = 0, fails
\* with StackUnderflow, and Ret executed with fp = 0 fails with
\* CallStackUnderflow; the error carries the pc of that instruction, and
\* nothing was indexed or changed before the test: the run does not panic and
\* the registers and stacks are as they were.
C10_UnderflowReported ==
    [][/\ ExecutingOneOf(PoppingOps) /\ sp = 0 =>
             /\ status' = "error"
             /\ err' = MachineError("StackUnderflow", pc)
             /\ MachineUnchanged
       /\ Executing("Ret") /\ fp = 0 =>
             /\ status' = "error"
             /\ err' = MachineError("CallStackUnderflow", pc)
             /\ MachineUnchanged]_vars

\* An instruction at address 1 has failed on the empty data stack.
C10_Witness ==
    /\ status = "error"
    /\ err = MachineError("StackUnderflow", 1)
    /\ At(code, 1).op \in PoppingOps
    /\ pc = 1
    /\ sp = 0

-----------------------------------------------------------------------------
(* Properties of the assembler, under SpecAsm.  The source format is read   *)
(* here line by line, as the specification words it: a line is blank, a    *)
(* comment, a label definition `name:`, or a mnemonic with its operand.     *)

FirstSpace(l) ==
    IF \E i \in 1 .. Len(l) : l[i] = " "
    THEN CHOOSE i \in 1 .. Len(l) : l[i] = " " /\ \A j \in 1 .. i - 1 : l[j] # " "
    ELSE Len(l) + 1

FirstWord(l) == SubSeq(l, 1, FirstSpace(l) - 1)
OperandOf(l) == SubSeq(l, FirstSpace(l) + 1, Len(l))

IsBlankLine(l) == l = <<>>
IsCommentLine(l) == l # <<>> /\ l[1] = ";"
IsInstrLine(l) == MnemonicOf(FirstWord(l)) # "none"
IsLabelLine(l) ==
    /\ l # <<>>
    /\ l[Len(l)] = ":"
    /\ FirstSpace(l) > Len(l)
    /\ ~IsInstrLine(l)
    /\ ~IsCommentLine(l)
LabelName(l) == SubSeq(l, 1, Len(l) - 1)

\* `jmp @name`, `jz @name`, `jnz @name` or `call @name`
IsRefLine(l) ==
    /\ MnemonicOf(FirstWord(l)) \in AddressOps
    /\ Len(OperandOf(l)) > 1
    /\ OperandOf(l)[1] = "@"
RefName(l) == Tail(OperandOf(l))

\* A line the source format allows.
IsValidLine(l) ==
    \/ IsBlankLine(l)
    \/ IsCommentLine(l)
    \/ IsLabelLine(l)
    \/ /\ IsInstrLine(l)
       /\ LET op == MnemonicOf(FirstWord(l))
          IN  CASE op = "LoadImmediate" ->
                      ParseInt(OperandOf(l), TRUE, -32768, 32767).ok
                [] op \in AddressOps ->
                      IsRefLine(l) \/ ParseInt(OperandOf(l), FALSE, 0, 65535).ok
                [] OTHER -> FirstSpace(l) > Len(l)

\* A valid line that is not a comment.
IsPlainLine(l) == IsValidLine(l) /\ ~IsCommentLine(l)

LineNumbers(ls) == 1 .. Len(ls)

\* The instruction lines above line i: the address of the instruction of
\* line i, and the address a label defined on line i is bound to.
AddressAtLine(ls, i) == Cardinality({j \in 1 .. i - 1 : IsInstrLine(ls[j])})

InstrCount(ls) == AddressAtLine(ls, Len(ls) + 1)

DefLines(ls, name) == {i \in LineNumbers(ls) : IsLabelLine(ls[i]) /\ LabelName(ls[i]) = name}

RefLines(ls) == {i \in LineNumbers(ls) : IsRefLine(ls[i])}

\* Every label that is defined or referenced is defined on exactly one line.
LabelsDefinedOnce(ls) ==
    /\ \A i \in RefLines(ls) : Cardinality(DefLines(ls, RefName(ls[i]))) = 1
    /\ \A i \in LineNumbers(ls) :
          IsLabelLine(ls[i]) => DefLines(ls, LabelName(ls[i])) = {i}

\* Some referenced label is defined nowhere.
HasMissingLabel(ls) == \E i \in RefLines(ls) : DefLines(ls, RefName(ls[i])) = {}

EndsWithNewline == source # <<>> /\ source[Len(source)] = "\n"

AsmFinished == astatus \in {"ok", "error", "panic"}

\* C3: when assembly succeeds and each label is defined once, the instruction
\* stored for every `jmp/jz/jnz/call @name` line, above or below the line
\* `name:`, has the line's opcode and as its address the instruction count
\* at the line `name:`.
C3_ReferencesResolved ==
    astatus = "ok" /\ LabelsDefinedOnce(src_lines) =>
        \A i \in RefLines(src_lines) :
            LET k == AddressAtLine(src_lines, i)
                d == CHOOSE j \in DefLines(src_lines, RefName(src_lines[i])) : TRUE
            IN  /\ k < inst_count
                /\ At(dst, k) = Ins(MnemonicOf(FirstWord(src_lines[i])),
                                    AddressAtLine(src_lines, d))

\* C6: a source that references a label defined on no line is refused with
\* an AssemblyError of kind MissingLabelDefinition: assembly neither crashes
\* nor succeeds.  (Sources of valid lines without comments that fit the
\* buffer and end with a newline, so that nothing else is wrong with them.)
C6_MissingLabelReported ==
    /\ AsmFinished
    /\ \A i \in LineNumbers(src_lines) : IsPlainLine(src_lines[i])
    /\ InstrCount(src_lines) <= Len(dst)
    /\ EndsWithNewline
    /\ HasMissingLabel(src_lines)
    => astatus = "error" /\ aerr.kind = "MissingLabelDefinition"

\* The line of the first instruction that does not fit a buffer of cap slots.
FirstOverflowLine(ls, cap) ==
    CHOOSE i \in LineNumbers(ls) : IsInstrLine(ls[i]) /\ AddressAtLine(ls, i) = cap

\* C7: a source with more instruction lines than the buffer has slots is
\* refused with an AssemblyError of kind CodeTooBig at the line of the first
\* instruction that does not fit.  (Sources of valid lines without comments,
\* with every label defined, that end with a newline, so that nothing else
\* is wrong with them.)
C7_CodeTooBigReported ==
    /\ AsmFinished
    /\ \A i \in LineNumbers(src_lines) : IsPlainLine(src_lines[i])
    /\ ~HasMissingLabel(src_lines)
    /\ EndsWithNewline
    /\ InstrCount(src_lines) > Len(dst)
    => /\ astatus = "error"
       /\ aerr.kind = "CodeTooBig"
       /\ aerr.line = FirstOverflowLine(src_lines, Len(dst))


-----------------------------------------------------------------------------
(* Properties of runs and of single instructions, under SpecVM.             *)

\* A run on a machine that has completed a run before is over.
SecondRunOver == runs = 2 /\ status \in {"halted", "error", "panic"}

\* C16: a call of run on a machine that has completed a run, normally or
\* with an error, starts from pc = 0, sp = 0, fp = 0 and acc = 0 and ends
\* with the result and the registers that run gives on Machine::new() for
\* the same instruction sequence.
C16_RerunIsFreshRun ==
    /\ runs = 2 /\ status = "running" /\ steps = 0 =>
          pc = 0 /\ sp = 0 /\ fp = 0 /\ acc = 0
    /\ SecondRunOver =>
          LET fresh == run(NewMachine, code)
          IN  /\ fresh.status = status
              /\ fresh.err = err
              /\ fresh.m.pc = pc
              /\ fresh.m.sp = sp
              /\ fresh.m.fp = fp
              /\ fresh.m.acc = acc

\* What run does reset: the second run starts from pc = 0.
RerunStartsAtZero == runs = 2 /\ status = "running" /\ steps = 0 => pc = 0

\* C17: an instruction that fails with a MachineError leaves the machine as
\* it was just before it: pc still addresses the failed instruction and is
\* the pc stored in the error, and sp, fp, acc and both stacks are
\* unchanged; and the run stops at once: after the error no instruction is
\* executed until run is called again.
C17_FailedInstructionChangesNothing ==
    [][/\ status = "running" /\ status' = "error" =>
              /\ MachineUnchanged
              /\ err'.kind \in MachineErrorKind
              /\ err'.pc = pc
       /\ status = "error" => status' = "running" /\ runs' = runs + 1]_vars

\* A run has failed on an instruction other than its first, with values in
\* the accumulator and on the call stack.
C17_Witness ==
    /\ status = "error"
    /\ err.kind \in MachineErrorKind
    /\ err.pc = pc
    /\ steps > 1
    /\ \/ acc # 0
       \/ fp > 0

\* An iteration of the loop of run whose instruction completes without error.
StepCompletes == status = "running" /\ Fetchable /\ status' = "running"

\* The loop of run is at its end: pc is out of range or addresses a Halt.
AtLoopEnd == status = "running" /\ ~Fetchable

\* The instruction at pc sets pc to its operand: Jmp, Call, JumpIfZero with
\* acc = 0, JumpIfNotZero with acc # 0.
JumpTaken ==
    \/ At(code, pc).op \in {"Jmp", "Call"}
    \/ At(code, pc).op = "JumpIfZero" /\ acc = 0
    \/ At(code, pc).op = "JumpIfNotZero" /\ acc # 0

\* C18, as stated: when pc is out of range or addresses a Halt the run stops
\* normally with all registers unchanged; a completed Jmp, Call, taken
\* JumpIfZero, taken JumpIfNotZero or Ret leaves pc at exactly the value
\* the instruction set (for Ret the address popped from the call stack),
\* with no further increment; every other completed instruction, an untaken
\* conditional jump included, advances pc by exactly 1.
C18_PcAfterInstruction ==
    [][/\ AtLoopEnd => status' = "halted" /\ MachineUnchanged
       /\ StepCompletes =>
              IF JumpTaken THEN pc' = At(code, pc).arg
              ELSE IF At(code, pc).op = "Ret" THEN pc' = call_stack[fp - 1]
              ELSE pc' = pc + 1]_vars

\* C18, amended: as above, except that Ret leaves pc at the address popped
\* from the call stack plus 1: the common increment follows the pop.
C18_PcAfterInstructionAmended ==
    [][/\ AtLoopEnd => status' = "halted" /\ MachineUnchanged
       /\ StepCompletes =>
              IF JumpTaken THEN pc' = At(code, pc).arg
              ELSE IF At(code, pc).op = "Ret" THEN pc' = call_stack[fp - 1] + 1
              ELSE pc' = pc + 1]_vars

\* The run of call 3 / load 3 / halt / inc / ret has completed its Call, an
\* Inc and its Ret, and is back at address 1.
C18_Witness ==
    /\ code = ProgCallRet
    /\ status = "running"
    /\ runs = 1
    /\ steps = 3
    /\ pc = 1
    /\ fp = 0

-----------------------------------------------------------------------------
(* Properties of the assembler's handling of lines, under SpecAsm.          *)

\* The lines of ls that are neither blank nor comments, in order.
RECURSIVE StripLines(_)
StripLines(ls) ==
    IF ls = <<>> THEN <<>>
    ELSE IF IsBlankLine(ls[1]) \/ IsCommentLine(ls[1]) THEN StripLines(Tail(ls))
    ELSE <<ls[1]>> \o StripLines(Tail(ls))

HasBlankOrComment(ls) ==
    \E i \in LineNumbers(ls) : IsBlankLine(ls[i]) \/ IsCommentLine(ls[i])

\* C11: blank lines and lines starting with `;` emit nothing and raise no
\* error wherever they stand: assembling a source gives the same outcome,
\* instruction sequence and count as assembling the source with those
\* lines removed.  (Sources that end with a newline.)
C11_CommentsAndBlanksIgnored ==
    AsmFinished /\ EndsWithNewline /\ HasBlankOrComment(src_lines) =>
        LET plain == code_from_str(Text(StripLines(src_lines), TRUE),
                                   [i \in 1 .. Len(dst) |-> Halt])
        IN  /\ Outcome.status = plain.status
            /\ Outcome.inst_count = plain.inst_count
            /\ Outcome.code = plain.code

\* The same for blank lines alone.
C11_BlanksIgnored ==
    /\ AsmFinished
    /\ EndsWithNewline
    /\ \E i \in LineNumbers(src_lines) : IsBlankLine(src_lines[i])
    /\ \A i \in LineNumbers(src_lines) : ~IsCommentLine(src_lines[i])
    => LET plain == code_from_str(Text(StripLines(src_lines), TRUE),
                                  [i \in 1 .. Len(dst) |-> Halt])
       IN  /\ Outcome.status = plain.status
           /\ Outcome.inst_count = plain.inst_count
           /\ Outcome.code = plain.code


\* The first line of ls that the source format does not allow.
HasInvalidLine(ls) == \E i \in LineNumbers(ls) : ~IsValidLine(ls[i])
FirstInvalidLine(ls) ==
    CHOOSE i \in LineNumbers(ls) :
        /\ ~IsValidLine(ls[i])
        /\ \A j \in 1 .. i - 1 : IsValidLine(ls[j])

\* C12: an AssemblyError returned by code_from_str carries in `line` the
\* 1-based number of the source line on which the error was detected, every
\* source line counted: instructions, labels and blank lines.  (Sources
\* without comment lines that end with a newline; the error is about their
\* first wrong line.)
C12_ErrorLineIsSourceLine ==
    /\ astatus = "error"
    /\ EndsWithNewline
    /\ \A i \in LineNumbers(src_lines) : ~IsCommentLine(src_lines[i])
    /\ HasInvalidLine(src_lines)
    => aerr.line = FirstInvalidLine(src_lines)

\* What the line field holds instead: the number of instructions emitted
\* before the error.
ErrorLineIsInstructionCount == astatus = "error" => aerr.line = inst_count


\* The first line of the source is a `load` line.
FirstLineIsLoad ==
    src_lines # <<>> /\ MnemonicOf(FirstWord(src_lines[1])) = "LoadImmediate"

\* C13: a `load` line (here the first line of the source) whose operand is a
\* signed decimal integer fitting in 16 bits stores LoadImmediate of that
\* value; an operand that does not parse as one is refused with
\* InvalidNumber; a `load` with nothing after it on its line is refused
\* with WrongArity{expected: 1, got: 0}, the next line's token not being
\* taken as its operand.  (Sources that end with a newline.)
C13_LoadOperand ==
    AsmFinished /\ FirstLineIsLoad /\ EndsWithNewline =>
        LET operand == OperandOf(src_lines[1])
            r == ParseInt(operand, TRUE, -32768, 32767)
        IN  CASE r.ok ->
                   /\ astatus # "panic"
                   /\ astatus = "ok" => inst_count >= 1
                   /\ At(dst, 0) = Ins("LoadImmediate", r.val)
              [] operand = <<>> ->
                   /\ astatus = "error"
                   /\ aerr.kind = "WrongArity"
                   /\ aerr.text = <<"1", "0">>
              [] OTHER ->
                   /\ astatus = "error"
                   /\ aerr.kind = "InvalidNumber"
                   /\ aerr.text = operand

\* The two operand cases of C13 alone, for sources that end with a newline.
C13_LoadWithOperand ==
    AsmFinished /\ FirstLineIsLoad /\ EndsWithNewline /\ OperandOf(src_lines[1]) # <<>> =>
        LET operand == OperandOf(src_lines[1])
            r == ParseInt(operand, TRUE, -32768, 32767)
        IN  IF r.ok
            THEN At(dst, 0) = Ins("LoadImmediate", r.val)
            ELSE astatus = "error" /\ aerr.kind = "InvalidNumber" /\ aerr.text = operand


\* The source is one line holding a mnemonic with a numeric operand where
\* the mnemonic takes one, and nothing else.
SingleMnemonicLine ==
    /\ Len(src_lines) = 1
    /\ IsInstrLine(src_lines[1])
    /\ IsValidLine(src_lines[1])
    /\ ~IsRefLine(src_lines[1])

\* The instruction that an instruction line with a numeric operand, or with
\* none, stands for.
InstructionOfLine(l) ==
    LET op == MnemonicOf(FirstWord(l))
    IN  CASE op = "LoadImmediate" -> Ins(op, ParseInt(OperandOf(l), TRUE, -32768, 32767).val)
          [] op \in AddressOps -> Ins(op, ParseInt(OperandOf(l), FALSE, 0, 65535).val)
          [] OTHER -> I0(op)

\* C14: assembling a source made of one line holding one of the 27
\* mnemonics, with a valid operand for load, jmp, jz, jnz and call, followed
\* by a newline or not, returns instruction count 1 and stores the matching
\* instruction with its operand at index 0.
C14_SingleLine ==
    AsmFinished /\ SingleMnemonicLine =>
        /\ astatus = "ok"
        /\ inst_count = 1
        /\ At(dst, 0) = InstructionOfLine(src_lines[1])

\* C14 for the sources that end with a newline.
C14_SingleLineWithNewline ==
    AsmFinished /\ SingleMnemonicLine /\ EndsWithNewline =>
        /\ astatus = "ok"
        /\ inst_count = 1
        /\ At(dst, 0) = InstructionOfLine(src_lines[1])

\* All 27 mnemonics are assembled on a line of their own.
AllMnemonicsCovered ==
    {MnemonicOf(FirstWord(l)) : l \in MnemonicLines} = NoOperandOps \cup AddressOps \cup {"LoadImmediate"}


-----------------------------------------------------------------------------
(* Properties of labels and fixups, under SpecAsm.                          *)

\* The last line of ls that defines `name`.
LastDefLine(ls, name) ==
    CHOOSE i \in DefLines(ls, name) : \A j \in DefLines(ls, name) : j <= i

\* Some label of ls is defined on more than one line.
HasRedefinedLabel(ls) ==
    \E i \in LineNumbers(ls) :
        IsLabelLine(ls[i]) /\ Cardinality(DefLines(ls, LabelName(ls[i]))) > 1

\* A source with nothing wrong but a label defined more than once: valid
\* lines without comments, every referenced label defined, no more
\* instructions than the buffer holds.
RedefiningSource ==
    /\ \A i \in LineNumbers(src_lines) : IsPlainLine(src_lines[i])
    /\ ~HasMissingLabel(src_lines)
    /\ InstrCount(src_lines) <= Len(dst)
    /\ HasRedefinedLabel(src_lines)

\* Every reference holds the address bound by the last definition of its label.
ReferencesHoldLastDefinition ==
    \A i \in RefLines(src_lines) :
        LET k == AddressAtLine(src_lines, i)
            d == LastDefLine(src_lines, RefName(src_lines[i]))
        IN  /\ k < inst_count
            /\ At(dst, k) = Ins(MnemonicOf(FirstWord(src_lines[i])),
                                AddressAtLine(src_lines, d))

\* C19: when a label is defined on more than one line assembly still
\* succeeds, and every `@name` reference, scanned before the first
\* definition, between definitions or after the last, then holds the
\* address bound by the last line that defines `name`.
C19_LastDefinitionWins ==
    AsmFinished /\ RedefiningSource =>
        astatus = "ok" /\ ReferencesHoldLastDefinition

\* C19 for the sources that end with a newline.
C19_LastDefinitionWinsWithNewline ==
    AsmFinished /\ RedefiningSource /\ EndsWithNewline =>
        astatus = "ok" /\ ReferencesHoldLastDefinition

\* A successful assembly with a reference between two definitions of its label.
RedefinedAroundReference ==
    /\ astatus = "ok"
    /\ RedefiningSource
    /\ EndsWithNewline
    /\ \E i \in RefLines(src_lines) :
          \E d1, d2 \in DefLines(src_lines, RefName(src_lines[i])) :
              d1 < i /\ i < d2 /\ AddressAtLine(src_lines, d1) # AddressAtLine(src_lines, d2)


\* The slots recorded in the fixup list of some label.
FixupSlots ==
    UNION {{fixes_by_label[label].to_fix[k] : k \in 1 .. Len(fixes_by_label[label].to_fix)} :
              label \in DOMAIN fixes_by_label}

\* C20: when the scan has finished without error and the resolution pass
\* runs, every slot recorded in a label's fixup list is below the final
\* instruction count and holds a Jmp, JumpIfZero, JumpIfNotZero or Call;
\* the `instruction address unsupported` branch of the pass is never taken.
C20_FixupSlotsHoldAddressInstructions ==
    /\ astatus \in {"resolve", "ok"} =>
          \A slot \in FixupSlots : slot < inst_count /\ AddressIns(At(dst, slot))
    /\ apanic # "not yet implemented: handle error instruction address unsupported"

\* The resolution pass is under way over a label referenced from two slots,
\* one entry already resolved.
C20_Witness ==
    /\ astatus = "resolve"
    /\ pending # DOMAIN fixes_by_label
    /\ \E label \in DOMAIN fixes_by_label : Len(fixes_by_label[label].to_fix) >= 2

=============================================================================
